---------------------------- MODULE Spec2Model ----------------------------
(***************************************************************************)
(* Offline-queue flush (extension.ts: sendOfflineData) and login-state     *)
(* cache / login-recheck campaign (lib/DataController.ts) of swdc-vscode.  *)
(*                                                                         *)
(* Everything runs on one JavaScript thread: an action of this module is   *)
(* the code that runs between two suspension points (await, .then, timer). *)
(***************************************************************************)
EXTENDS Integers, Sequences, FiniteSets, Bags, TLC

\* ------------------------------------------------------------------------
\* Bounds of the model
\* ------------------------------------------------------------------------
MaxRecords == 3      \* records appended to the store file in one run
MaxFlushes == 2      \* sendOfflineData calls in one run
MaxTicks == 5        \* clock steps of TickSeconds in one run
MaxTasks == 2        \* async calls of DataController in progress at a time
MaxPrefs == 1        \* initializePreferences -> getUser requests in flight
MaxTryCount == 2     \* largest attempt budget of a login-recheck campaign
MaxLines == 3        \* lines of a store file left by an earlier session
MaxLineRecs == 2     \* distinct records in such a file
MaxRetryCounter == 6 \* retry_counter values above this are identified

VARIABLES
    TELEMETRY_ON,    \* extension.ts: let TELEMETRY_ON
    serverUp,        \* environment: the backend is reachable
    fileExists,      \* fs.existsSync(getSoftwareDataStoreFile())
    file,            \* the lines of the store file, oldest first
    flushes,         \* the sendOfflineData calls: locals and position
    appendLog,       \* history: for each appended record, "offline"/"online"
    connectState,    \* DataController.ts: let connectState ("null" or loggedIn)
    lastLoggedInCheckTime,  \* DataController.ts: 0 stands for null
    now,             \* moment().unix()
    jwt,             \* getItem("jwt") is set
    check_status,    \* getItem("check_status") is true
    tasks,           \* the async DataController calls in progress (a bag)
    prefsPending,    \* getUser requests of initializePreferences in flight
    userFetchTimeout,  \* DataController.ts: the pending login-recheck timer
    origin,          \* history: what produced connectState, and when
    plainCall,       \* history: the last direct getUserStatus(true, false) call
    offlineTimer,    \* extension.ts activate: the sendOfflineData timer is pending
    token,           \* getItem("token") is set
    auth,            \* the isAuthenticated call: inputs, position, result
    retry_counter,   \* onboarding: let retry_counter
    focused,         \* window.state.focused
    jwtApp,          \* the stored jwt decodes to an app id (> 9999999999)
    onboard,         \* onboarding: position of the onboardInit chain
    prompts          \* history: showOfflinePrompt calls

flushVars == <<TELEMETRY_ON, fileExists, file, flushes, appendLog>>

\* authVars without jwt
loginVars == <<connectState, lastLoggedInCheckTime, now, check_status,
               tasks, prefsPending, userFetchTimeout, origin, plainCall>>

authVars == <<connectState, lastLoggedInCheckTime, now, jwt, check_status,
              tasks, prefsPending, userFetchTimeout, origin, plainCall>>

\* state of the activation timer, isAuthenticated and the onboarding
restVars == <<offlineTimer, token, auth, retry_counter, focused, jwtApp,
              onboard, prompts>>

vars == <<TELEMETRY_ON, serverUp, fileExists, file, flushes, appendLog,
          connectState, lastLoggedInCheckTime, now, jwt, check_status,
          tasks, prefsPending, userFetchTimeout, origin, plainCall,
          offlineTimer, token, auth, retry_counter, focused, jwtApp,
          onboard, prompts>>

\* ------------------------------------------------------------------------
\* The store file: line-delimited JSON
\* ------------------------------------------------------------------------
\* A line of the store file.  kind "object": the JSON text of a record;
\* "falsy": JSON text of a falsy value (0, null, false, "");
\* "bad": text JSON.parse throws on; "blank": the empty string.
LineKinds == {"object", "falsy", "bad", "blank"}

RecordLine(r) == [kind |-> "object", rec |-> r]

\* the lines a store file left by an earlier session may hold, and the
\* contents of such a file
Lines ==
    {RecordLine(r) : r \in 1 .. MaxLineRecs}
        \cup {[kind |-> k, rec |-> 0] : k \in LineKinds \ {"object"}}

Contents == UNION {[1 .. n -> Lines] : n \in 0 .. MaxLines}

\* item => { let obj = null; if (item) { try { obj = JSON.parse(item) }
\* catch (e) {} } if (obj) { return obj } }  --  0 stands for undefined
ParseLine(line) ==
    IF line.kind = "blank" THEN 0
    ELSE IF line.kind = "bad" THEN 0
    ELSE IF line.kind = "falsy" THEN 0
    ELSE line.rec

TruthyAll(item) == TRUE

\* .filter(item => item)
Truthy(item) == item # 0

RECURSIVE MapParse(_)
MapParse(lines) ==
    IF lines = <<>> THEN <<>>
    ELSE <<ParseLine(Head(lines))>> \o MapParse(Tail(lines))

\* content.split(/\r?\n/).map(...).filter(item => item)
ParsePayloads(content) == SelectSeq(MapParse(content), Truthy)

\* ------------------------------------------------------------------------
\* HTTP helpers
\* ------------------------------------------------------------------------
Responses == {"ok", "deactivated", "autherr", "neterr", "malformed"}

\* the answers the backend can give to a request completing now
PossibleResponses ==
    IF serverUp THEN Responses ELSE {"neterr", "malformed"}

isResponseOk(resp) == resp = "ok"

isUserDeactivated(resp) == resp = "deactivated"

\* serverIsAvailable(): never throws, errors resolve to false
serverIsAvailable == serverUp

FlushAcceptedAlways(resp) == TRUE

FlushAcceptedOkOnly(resp) == isResponseOk(resp)

DeleteAlways(available) == TRUE

\* if (serverAvailablePromise) { ... delete the offline data file
DeleteConfirmed(available) == available

\* if (isResponseOk(resp) || isUserDeactivated(resp))
FlushAccepted(resp) == isResponseOk(resp) \/ isUserDeactivated(resp)

\* ------------------------------------------------------------------------
\* sendOfflineData
\* ------------------------------------------------------------------------
IdleFlush ==
    [pc |-> "idle", content |-> <<>>, payloads |-> <<>>,
     resp |-> "none", avail |-> "none", seen |-> 0]

FlushIds == 1 .. MaxFlushes

\* calls are numbered in the order they are made
NextFlushId(f) ==
    /\ flushes[f].pc = "idle"
    /\ \A g \in FlushIds : g < f => flushes[g].pc # "idle"

\* try: the argument tryCountUntilFoundUser of a handler; budget, attempt
\* (history): the budget its campaign started with and the number of this
\* handler invocation in the campaign
FreeTask == [kind |-> "none", pc |-> "idle", online |-> FALSE,
             try |-> 0, budget |-> 0, attempt |-> 0]

\* let userFetchTimeout = null.  timers (history): the setTimeout calls of
\* refetchUserStatusLazily whose callback has not run yet
NoTimer == [try |-> -1, budget |-> 0, attempt |-> 0, timers |-> 0]

NoOrigin == [src |-> "none", time |-> 0]

\* connectState is null because clearCachedLoggedInState() was called
Cleared == [src |-> "clear", time |-> 0]

NoCall == [time |-> 0, requested |-> FALSE]

\* no isAuthenticated call made yet.  telemetry, token: TELEMETRY_ON and
\* getItem("token") as the call read them; pinged: it issued /users/ping
NoAuthCall == [pc |-> "idle", telemetry |-> TRUE, token |-> FALSE,
               pinged |-> FALSE, resp |-> "none", result |-> FALSE]

\* onboardInit not called yet.  callbacks, anonCreated, jwtAtCallback
\* (history): the callback invocations, the argument of the last one and
\* whether a jwt was stored when it was made; onlineCalls (history): the
\* calls of secondaryWindowOnboarding that found the server online; timers:
\* the setTimeout calls of the onboarding whose callback has not run yet
IdleOnboard == [pc |-> "idle", callbacks |-> 0, anonCreated |-> FALSE,
                jwtAtCallback |-> FALSE, onlineCalls |-> 0, timers |-> 0]

\* the store file is absent and no sendOfflineData call was made
InitStore ==
    /\ fileExists = FALSE
    /\ file = <<>>
    /\ appendLog = <<>>

\* the module-level state of DataController.ts and the stored items it reads
InitAuth ==
    /\ connectState = "null"
    /\ lastLoggedInCheckTime = 0
    /\ now = 1
    /\ jwt \in BOOLEAN
    /\ check_status = FALSE
    /\ tasks = EmptyBag
    /\ prefsPending = 0
    /\ userFetchTimeout = NoTimer
    /\ origin = NoOrigin
    /\ plainCall = NoCall

\* extension.ts and the onboarding module before any call
InitRest ==
    /\ TELEMETRY_ON = TRUE
    /\ flushes = [f \in FlushIds |-> IdleFlush]
    /\ offlineTimer = TRUE
    /\ token = FALSE
    /\ auth = NoAuthCall
    /\ retry_counter = 0
    /\ focused = TRUE
    /\ onboard = IdleOnboard
    /\ prompts = 0

Init ==
    /\ serverUp \in BOOLEAN
    /\ InitStore
    /\ InitAuth
    /\ InitRest
    /\ jwtApp = FALSE

\* LocalRecordStore.append: one line of JSON appended, file created if absent
StoreAppend ==
    /\ Len(appendLog) < MaxRecords
    /\ fileExists' = TRUE
    /\ file' = Append(file, RecordLine(Len(appendLog) + 1))
    /\ appendLog' = Append(appendLog, IF serverUp THEN "online" ELSE "offline")
    /\ UNCHANGED <<TELEMETRY_ON, serverUp, flushes>>
    /\ UNCHANGED authVars
    /\ UNCHANGED restVars

\* the synchronous part of sendOfflineData: read, parse, issue the POST
ReadAndPost(f) ==
    /\ NextFlushId(f)
    /\ IF TELEMETRY_ON /\ fileExists /\ file # <<>>
       THEN flushes' = [flushes EXCEPT ![f] =
                [pc |-> "posting", content |-> file,
                 payloads |-> ParsePayloads(file),
                 resp |-> "none", avail |-> "none",
                 seen |-> Len(appendLog)]]
       ELSE flushes' = [flushes EXCEPT ![f].pc = "done"]

\* an exported call sendOfflineData()
SendOfflineData(f) ==
    /\ ReadAndPost(f)
    /\ UNCHANGED <<TELEMETRY_ON, serverUp, fileExists, file, appendLog>>
    /\ UNCHANGED authVars
    /\ UNCHANGED restVars

\* activate: setTimeout(() => { sendOfflineData() }, 10000) fires
OfflineTimerFires(f) ==
    /\ offlineTimer
    /\ offlineTimer' = FALSE
    /\ ReadAndPost(f)
    /\ UNCHANGED <<TELEMETRY_ON, serverUp, fileExists, file, appendLog>>
    /\ UNCHANGED authVars
    /\ UNCHANGED <<token, auth, retry_counter, focused, jwtApp, onboard,
                   prompts>>

\* softwarePost(...).then(async resp => { if (ok || deactivated) {
\*     const serverAvailablePromise = await serverIsAvailable()
PostResponse(f, resp) ==
    /\ flushes[f].pc = "posting"
    /\ resp \in PossibleResponses
    /\ flushes' = [flushes EXCEPT
            ![f].resp = resp,
            ![f].pc = IF FlushAccepted(resp) THEN "checking" ELSE "done"]
    /\ UNCHANGED <<TELEMETRY_ON, serverUp, fileExists, file, appendLog>>
    /\ UNCHANGED authVars
    /\ UNCHANGED restVars

\* deleteFile(file): removes the file, no-op if absent
deleteFile ==
    /\ fileExists' = FALSE
    /\ file' = <<>>

\* if (serverAvailablePromise) { deleteFile(getSoftwareDataStoreFile()) }
ConnectivityChecked(f) ==
    /\ flushes[f].pc = "checking"
    /\ flushes' = [flushes EXCEPT
            ![f].avail = IF serverIsAvailable THEN "yes" ELSE "no",
            ![f].pc = "done"]
    /\ IF DeleteConfirmed(serverIsAvailable)
       THEN deleteFile
       ELSE UNCHANGED <<fileExists, file>>
    /\ UNCHANGED <<TELEMETRY_ON, serverUp, appendLog>>
    /\ UNCHANGED authVars
    /\ UNCHANGED restVars

\* the backend becomes reachable or unreachable
ServerChange ==
    /\ serverUp' = ~serverUp
    /\ UNCHANGED flushVars
    /\ UNCHANGED authVars
    /\ UNCHANGED restVars

NextFlush ==
    \/ StoreAppend
    \/ \E f \in FlushIds : SendOfflineData(f)
    \/ \E f \in FlushIds : \E resp \in Responses : PostResponse(f, resp)
    \/ \E f \in FlushIds : ConnectivityChecked(f)
    \/ ServerChange

\* sendOfflineData only passes the jwt on to softwarePost: one is stored
InitFlush == Init /\ jwt

SpecFlush == InitFlush /\ [][NextFlush]_vars

\* the flushes the timers of activate make
NextActivate ==
    \/ StoreAppend
    \/ \E f \in FlushIds : OfflineTimerFires(f)
    \/ \E f \in FlushIds : \E resp \in Responses : PostResponse(f, resp)
    \/ \E f \in FlushIds : ConnectivityChecked(f)
    \/ ServerChange

\* a pending timer fires, a request is answered
SpecActivate ==
    /\ Init
    /\ [][NextActivate]_vars
    /\ WF_vars(\E f \in FlushIds : OfflineTimerFires(f))
    /\ WF_vars(\E f \in FlushIds : \E resp \in Responses : PostResponse(f, resp))
    /\ WF_vars(\E f \in FlushIds : ConnectivityChecked(f))

\* sendOfflineData run once on a store file left by an earlier session
InitParse ==
    /\ serverUp \in BOOLEAN
    /\ fileExists \in BOOLEAN
    /\ file \in Contents
    /\ ~fileExists => file = <<>>
    /\ appendLog = <<>>
    /\ InitAuth
    /\ jwt
    /\ InitRest
    /\ jwtApp = FALSE

NextParse ==
    \/ SendOfflineData(1)
    \/ \E resp \in Responses : PostResponse(1, resp)
    \/ ConnectivityChecked(1)
    \/ ServerChange

SpecParse == InitParse /\ [][NextParse]_vars

\* ------------------------------------------------------------------------
\* isAuthenticated
\* ------------------------------------------------------------------------
PingResultAlways(resp) == TRUE

\* if (isResponseOk(resp)) { return true } else { return false }
PingResult(resp) == isResponseOk(resp)

\* isAuthenticated up to its return or to await softwareGet("/users/ping")
IsAuthenticated ==
    /\ auth.pc # "pinging"
    /\ auth' =
          IF ~TELEMETRY_ON
          THEN [pc |-> "done", telemetry |-> FALSE, token |-> token,
                pinged |-> FALSE, resp |-> "none", result |-> TRUE]
          ELSE IF ~token
          THEN [pc |-> "done", telemetry |-> TRUE, token |-> FALSE,
                pinged |-> FALSE, resp |-> "none", result |-> FALSE]
          ELSE [pc |-> "pinging", telemetry |-> TRUE, token |-> TRUE,
                pinged |-> TRUE, resp |-> "none", result |-> FALSE]
    /\ UNCHANGED <<TELEMETRY_ON, serverUp, offlineTimer, token,
                   retry_counter, focused, jwtApp, onboard, prompts>>
    /\ UNCHANGED <<fileExists, file, flushes, appendLog>>
    /\ UNCHANGED authVars

\* the response of /users/ping arrives
PingResponse(resp) ==
    /\ auth.pc = "pinging"
    /\ resp \in PossibleResponses
    /\ auth' = [auth EXCEPT !.pc = "done", !.resp = resp,
                            !.result = PingResult(resp)]
    /\ UNCHANGED <<TELEMETRY_ON, serverUp, offlineTimer, token,
                   retry_counter, focused, jwtApp, onboard, prompts>>
    /\ UNCHANGED <<fileExists, file, flushes, appendLog>>
    /\ UNCHANGED authVars

\* handlePauseMetricsEvent / handleEnableMetricsEvent (the registration of
\* their commands in activate is commented out)
HandlePauseMetricsEvent ==
    /\ TELEMETRY_ON
    /\ TELEMETRY_ON' = FALSE
    /\ UNCHANGED <<serverUp, fileExists, file, flushes, appendLog>>
    /\ UNCHANGED authVars
    /\ UNCHANGED restVars

HandleEnableMetricsEvent ==
    /\ ~TELEMETRY_ON
    /\ TELEMETRY_ON' = TRUE
    /\ UNCHANGED <<serverUp, fileExists, file, flushes, appendLog>>
    /\ UNCHANGED authVars
    /\ UNCHANGED restVars

\* the login flow stores the token item, or it is removed
TokenChange ==
    /\ token' = ~token
    /\ UNCHANGED <<TELEMETRY_ON, serverUp, offlineTimer, auth,
                   retry_counter, focused, jwtApp, onboard, prompts>>
    /\ UNCHANGED <<fileExists, file, flushes, appendLog>>
    /\ UNCHANGED authVars

NextPing ==
    \/ IsAuthenticated
    \/ \E resp \in Responses : PingResponse(resp)
    \/ HandlePauseMetricsEvent
    \/ HandleEnableMetricsEvent
    \/ TokenChange
    \/ ServerChange

SpecPing == Init /\ [][NextPing]_vars

\* C20: isAuthenticated returns true without a network call when telemetry
\* is off; returns false without a network call when telemetry is on and no
\* token is stored; otherwise it requests /users/ping and returns true
\* exactly if the response is OK.
C20_IsAuthenticated ==
    [][/\ IsAuthenticated =>
            /\ ~TELEMETRY_ON =>
                  (auth'.pc = "done" /\ auth'.result /\ ~auth'.pinged)
            /\ (TELEMETRY_ON /\ ~token) =>
                  (auth'.pc = "done" /\ ~auth'.result /\ ~auth'.pinged)
            /\ (TELEMETRY_ON /\ token) =>
                  (auth'.pc = "pinging" /\ auth'.pinged)
       /\ \A resp \in Responses :
            PingResponse(resp) =>
                (auth'.pc = "done" /\ auth'.result = (resp = "ok"))]_vars

\* a call made with telemetry on and a token stored has returned true after
\* an OK answer of /users/ping
C20_Witness ==
    /\ auth.pc = "done"
    /\ auth.telemetry
    /\ auth.token
    /\ auth.pinged
    /\ auth.resp = "ok"
    /\ auth.result

\* ------------------------------------------------------------------------
\* Properties of the offline flush
\* ------------------------------------------------------------------------
Range(seq) == {seq[i] : i \in 1 .. Len(seq)}

Occurrences(r, seq) == Cardinality({i \in 1 .. Len(seq) : seq[i] = r})

\* the step in which flush f gets a positive connectivity check and deletes
FlushCompletes(f) ==
    /\ flushes[f].pc = "checking"
    /\ flushes'[f].pc = "done"
    /\ flushes'[f].avail = "yes"

\* records that were in the batch of a flush that completed with the delete
Delivered ==
    UNION {Range(flushes[g].payloads) :
              g \in {h \in FlushIds : flushes[h].avail = "yes"}}

\* C1 (Durability): when a flush completes successfully, every record that
\* was appended while the backend was unreachable before that flush read the
\* file occurs exactly once in its submitted batch (or was delivered by an
\* earlier completed flush), and the store file no longer exists.
C1_Durability ==
    [][\A f \in FlushIds : FlushCompletes(f) =>
          /\ ~fileExists'
          /\ \A r \in 1 .. flushes[f].seen :
                appendLog[r] = "offline" =>
                    \/ Occurrences(r, flushes[f].payloads) = 1
                    \/ r \in Delivered]_vars

\* C2: the delete of a flush removes no record that was appended after that
\* flush read the file.
C2_DeleteOnlySubmitted ==
    [][\A f \in FlushIds : FlushCompletes(f) =>
          \A i \in 1 .. Len(file) : file[i].rec <= flushes[f].seen]_vars

\* C3 (No premature clear): a flush whose POST response is OK and whose
\* connectivity check returns false leaves the store file as it is, and a
\* sendOfflineData call made while the store is as that flush read it
\* submits the same batch again.
C3_NoPrematureClear ==
    [][/\ \A f \in FlushIds :
            (/\ flushes[f].pc = "checking"
             /\ isResponseOk(flushes[f].resp)
             /\ flushes'[f].avail = "no")
            => (fileExists' = fileExists /\ file' = file)
       /\ \A f, g \in FlushIds :
            (/\ flushes[f].pc = "done"
             /\ isResponseOk(flushes[f].resp)
             /\ flushes[f].avail = "no"
             /\ fileExists
             /\ file = flushes[f].content
             /\ flushes[g].pc = "idle"
             /\ flushes'[g].pc # "idle")
            => (/\ flushes'[g].pc = "posting"
                /\ flushes'[g].payloads = flushes[f].payloads)]_vars

\* a flush ended by a failed connectivity check, and the next call has
\* submitted the same batch again
C3_Witness ==
    \E f, g \in FlushIds :
        /\ f < g
        /\ flushes[f].pc = "done"
        /\ flushes[f].resp = "ok"
        /\ flushes[f].avail = "no"
        /\ flushes[g].pc = "posting"
        /\ flushes[g].payloads = flushes[f].payloads
        /\ flushes[f].payloads # <<>>
        /\ fileExists

\* C4: a submit response that is neither OK nor user-deactivated ends the
\* flush at once: the store file is unchanged by that step, and no
\* connectivity check and no delete is ever made by that flush.
C4_FailureLeavesStore ==
    [][\A f \in FlushIds :
          flushes'[f].resp \in {"autherr", "neterr", "malformed"} =>
              /\ flushes'[f].pc = "done"
              /\ flushes'[f].avail = "none"
              /\ flushes[f].pc = "posting" =>
                    (fileExists' = fileExists /\ file' = file)]_vars

\* each kind of failure has ended a flush with the store still in place
C4_Witness ==
    /\ fileExists
    /\ \E f \in FlushIds :
          /\ flushes[f].pc = "done"
          /\ flushes[f].resp \in {"autherr", "neterr", "malformed"}
          /\ flushes[f].content = file
          /\ flushes[f].payloads # <<>>

\* C5 (Single in-flight flush): no two sendOfflineData calls have a submit
\* of the same record outstanding at the same time.
C5_SingleInFlight ==
    \A f, g \in FlushIds :
        (f # g /\ flushes[f].pc = "posting" /\ flushes[g].pc = "posting")
        => Range(flushes[f].payloads) \cap Range(flushes[g].payloads) = {}

\* C15: a flush whose POST is answered user-deactivated goes on to the
\* connectivity check like one answered OK; it deletes the store file if
\* that check returns true and leaves it as it is otherwise; and a
\* sendOfflineData call made after that delete submits none of the records
\* of the deleted batch.
C15_DeactivatedLikeSuccess ==
    [][\A f \in FlushIds :
          /\ (flushes[f].pc = "posting" /\ flushes'[f].resp = "deactivated")
                => flushes'[f].pc = "checking"
          /\ (/\ flushes[f].pc = "checking"
              /\ flushes[f].resp = "deactivated"
              /\ flushes'[f].pc = "done")
                => /\ flushes'[f].avail = (IF serverUp THEN "yes" ELSE "no")
                   /\ flushes'[f].avail = "yes" => ~fileExists'
                   /\ flushes'[f].avail = "no"
                         => (fileExists' = fileExists /\ file' = file)
          /\ \A g \in FlushIds :
                (/\ flushes[f].pc = "done"
                 /\ flushes[f].resp = "deactivated"
                 /\ flushes[f].avail = "yes"
                 /\ flushes[g].pc = "idle"
                 /\ flushes'[g].pc # "idle")
                => Range(flushes'[g].payloads)
                      \cap Range(flushes[f].payloads) = {}]_vars

\* a flush answered user-deactivated has deleted the store, and the call
\* after it has submitted later records only
C15_Witness ==
    \E f, g \in FlushIds :
        /\ flushes[f].pc = "done"
        /\ flushes[f].resp = "deactivated"
        /\ flushes[f].avail = "yes"
        /\ flushes[f].payloads # <<>>
        /\ flushes[g].pc = "posting"
        /\ flushes[g].payloads # <<>>
        /\ \A r \in Range(flushes[g].payloads) : r > flushes[f].seen

\* no flush is in progress, and one has ended without the delete and left
\* the records it read in the store
FlushLeftStore ==
    /\ fileExists
    /\ \A f \in FlushIds : flushes[f].pc \in {"idle", "done"}
    /\ \E f \in FlushIds :
          /\ flushes[f].pc = "done"
          /\ flushes[f].payloads # <<>>
          /\ flushes[f].avail # "yes"

FlushInProgress ==
    \E f \in FlushIds : flushes[f].pc \in {"posting", "checking"}

\* C19: whenever a flush has ended leaving the store non-empty (submit
\* failed or connectivity re-check failed), the scheduling of activate
\* eventually makes another flush attempt.
C19_FlushRecurs == FlushLeftStore ~> FlushInProgress

\* the number of lines of the given kinds among the first i lines
LinesUpTo(content, kinds, i) ==
    Cardinality({j \in 1 .. i : content[j].kind \in kinds})

\* the batch is the sequence of the values of the lines of these kinds
BatchIsLinesOf(f, kinds) ==
    LET content == flushes[f].content
        payloads == flushes[f].payloads
    IN
    /\ Len(payloads) = LinesUpTo(content, kinds, Len(content))
    /\ \A i \in 1 .. Len(content) :
          content[i].kind \in kinds
          => payloads[LinesUpTo(content, kinds, i)] = content[i].rec

\* C13 as stated: the batch a flush builds is the sequence of all lines
\* JSON.parse accepts, in file order.
C13_BatchIsParseableLines ==
    \A f \in FlushIds :
        flushes[f].pc # "idle" => BatchIsLinesOf(f, {"object", "falsy"})

\* C13: the batch a flush builds is the sequence of the records of the
\* lines that parse to a truthy value (JSON objects), in file order; blank
\* lines, lines JSON.parse rejects and lines with a falsy JSON value are
\* skipped and do not affect the lines before or after them.
C13_BatchIsObjectLines ==
    \A f \in FlushIds :
        flushes[f].pc # "idle" => BatchIsLinesOf(f, {"object"})

\* a flush has submitted the two records around an unparseable line
C13_Witness ==
    \E f \in FlushIds :
        /\ flushes[f].pc = "posting"
        /\ Len(flushes[f].content) = 3
        /\ flushes[f].content[1].kind = "object"
        /\ flushes[f].content[2].kind = "bad"
        /\ flushes[f].content[3].kind = "object"
        /\ flushes[f].payloads =
              <<flushes[f].content[1].rec, flushes[f].content[3].rec>>

\* C14: a sendOfflineData call that finds the store file absent, empty or
\* holding only blank and unparseable lines issues no network call.
C14_EmptyBatchNoNetwork ==
    [][\A f \in FlushIds :
          (/\ SendOfflineData(f)
           /\ \/ ~fileExists
              \/ \A i \in 1 .. Len(file) : file[i].kind \in {"bad", "blank"})
          => flushes'[f].pc # "posting"]_vars


\* ------------------------------------------------------------------------
\* DataController: the cached login state
\* ------------------------------------------------------------------------
TickSeconds == 100

\* const threshold = 60 * 5
threshold == 60 * 5

\* tryCountUntilFoundUser = 40, scaled to the largest budget of the model
DefaultTryCount == MaxTryCount

\* the answers of GET /users/plugin/state that can arrive now: state "OK",
\* another state (NOT_FOUND, ANONYMOUS, UNKNOWN), a response that is not
\* OK because the token was rejected, no response
Answers == {"OK", "ANONYMOUS", "REJECTED", "NETERR"}

PluginStateAnswers == IF serverUp THEN Answers ELSE {"NETERR"}

\* the suspended calls
Running == BagToSet(tasks)

\* one more call may be in progress
CanStart == BagCardinality(tasks) < MaxTasks

\* the calls in progress once task is suspended / has gone on
Started(task) == tasks (+) SetToBag({task})

Ended(task) == tasks (-) SetToBag({task})

LoggedInStateAlways(loggedIn) == "loggedIn"

\* connectState = new LoggedInState(); connectState.loggedIn = loggedIn
LoggedInState(loggedIn) == IF loggedIn THEN "loggedIn" ELSE "notLoggedIn"

ExpiredAtOrAfter(age) == age >= threshold

\* if (moment().unix() - lastLoggedInCheckTime > threshold)
Expired(age) == age > threshold

\* getUserStatus, lines 131-148: the cached state is returned (hit), or the
\* cache is invalidated / bypassed
CacheLookup(ignoreCache) ==
    IF ~ignoreCache /\ connectState # "null"
    THEN IF lastLoggedInCheckTime # 0
         THEN IF Expired(now - lastLoggedInCheckTime)
              THEN [hit |-> FALSE, last |-> 0, cs |-> "null"]
              ELSE [hit |-> TRUE, last |-> lastLoggedInCheckTime,
                    cs |-> connectState]
         ELSE [hit |-> TRUE, last |-> now, cs |-> connectState]
    ELSE [hit |-> FALSE, last |-> lastLoggedInCheckTime, cs |-> connectState]

\* a refetchUserStatusLazily without its guard
GuardedNever == FALSE

\* if (userFetchTimeout) { return; }
Guarded == userFetchTimeout.try # NoTimer.try

\* refetchUserStatusLazily(n): lines 324-330.  budget and made are the
\* budget of the calling campaign and the attempts it has made
Refetched(n, budget, made) ==
    IF Guarded
    THEN userFetchTimeout
    ELSE [try |-> n, budget |-> budget, attempt |-> made,
          timers |-> userFetchTimeout.timers + 1]

\* What the caller task of getUserStatus does with the result; rest are the
\* other calls in progress.  r holds the
\* values getUserStatus leaves: cs (connectState), cst (check_status),
\* pp (prefsPending), org (origin).
Conclude(rest, task, kind, loggedIn, r) ==
    /\ prefsPending' = r.pp
    /\ IF kind = "handler"
       THEN \* userStatusFetchHandler, lines 336-354
            /\ tasks' = rest
            /\ IF ~loggedIn
               THEN /\ connectState' = r.cs
                    /\ origin' = r.org
                    /\ IF task.try > 0
                       THEN /\ userFetchTimeout' =
                                Refetched(task.try - 1, task.budget,
                                          task.attempt)
                            /\ check_status' = r.cst
                       ELSE \* setItem("check_status", true)
                            /\ check_status' = TRUE
                            /\ UNCHANGED userFetchTimeout
               ELSE \* clearCachedLoggedInState()
                    /\ connectState' = "null"
                    /\ origin' = Cleared
                    /\ check_status' = r.cst
                    /\ UNCHANGED userFetchTimeout
       ELSE /\ connectState' = r.cs
            /\ origin' = r.org
            /\ check_status' = r.cst
            /\ UNCHANGED userFetchTimeout
            /\ IF kind = "kpm" /\ ~loggedIn
               THEN \* handleKpmClickedEvent: await buildWebDashboardUrl()
                    tasks' = rest (+) SetToBag(
                                {[FreeTask EXCEPT !.kind = "kpm", !.pc = "urls"]})
               ELSE tasks' = rest

\* getUserStatus(online, ignoreCache) up to its first suspension point, for
\* the call made by the caller task of the given kind
BeginStatus(rest, task, kind, online, ignoreCache) ==
    LET look == CacheLookup(ignoreCache)
        requests == ~look.hit /\ online /\ jwt
    IN
    /\ lastLoggedInCheckTime' = look.last
    /\ plainCall' = IF kind = "status" /\ online /\ ~ignoreCache
                    THEN [time |-> now, requested |-> requests]
                    ELSE plainCall
    /\ IF look.hit
       THEN Conclude(rest, task, kind, connectState = "loggedIn",
                     [cs |-> connectState, cst |-> check_status,
                      pp |-> prefsPending, org |-> origin])
       ELSE IF requests
       THEN \* isLoggedOn: await softwareGet("/users/plugin/state", jwt)
            /\ connectState' = look.cs
            /\ tasks' = rest (+) SetToBag(
                           {[task EXCEPT !.kind = kind, !.pc = "state",
                                         !.online = online]})
            /\ origin' = IF look.cs = "null" THEN NoOrigin ELSE origin
            /\ UNCHANGED <<check_status, prefsPending, userFetchTimeout>>
       ELSE \* loggedIn stays false: lines 150, 160-169
            Conclude(rest, task, kind, FALSE,
                     [cs |-> LoggedInState(FALSE), cst |-> check_status,
                      pp |-> prefsPending,
                      org |-> [src |-> IF online THEN "nojwt" ELSE "offline",
                               time |-> now]])

\* an exported call getUserStatus(online, ignoreCache)
GetUserStatus(online, ignoreCache) ==
    /\ CanStart
    /\ BeginStatus(tasks, FreeTask, "status", online, ignoreCache)
    /\ UNCHANGED <<now, jwt, serverUp>>
    /\ UNCHANGED flushVars
    /\ UNCHANGED restVars

\* an isLoggedOn that leaves check_status as it is
CheckStatusKept(loggedIn) == check_status

\* isLoggedOn, lines 98-102: if (checkStatus) setItem("check_status", null)
\* on state "OK"
CheckStatusAfter(loggedIn) == IF loggedIn THEN FALSE ELSE check_status

\* the response of /users/plugin/state arrives: rest of isLoggedOn
\* (lines 82-110) and of getUserStatus (lines 155-180), then the caller
StateResponse(task, answer) ==
    LET loggedIn == answer = "OK"
        spawns == task.online /\ loggedIn /\ jwt
    IN
    /\ task.pc = "state"
    /\ answer \in PluginStateAnswers
    /\ spawns => prefsPending < MaxPrefs
    /\ Conclude(Ended(task), task, task.kind, loggedIn,
                [cs |-> LoggedInState(loggedIn),
                 cst |-> CheckStatusAfter(loggedIn),
                 pp |-> IF spawns THEN prefsPending + 1 ELSE prefsPending,
                 org |-> [src |-> IF answer = "NETERR" THEN "failed"
                                  ELSE "remote",
                          time |-> now]])
    /\ UNCHANGED <<lastLoggedInCheckTime, plainCall, now, jwt, serverUp>>
    /\ UNCHANGED flushVars
    /\ UNCHANGED restVars

ClearKeepsState ==
    /\ connectState' = connectState
    /\ origin' = Cleared
    /\ plainCall' = NoCall
    /\ UNCHANGED <<lastLoggedInCheckTime, now, jwt, check_status, tasks,
                   prefsPending, userFetchTimeout, serverUp>>
    /\ UNCHANGED flushVars
    /\ UNCHANGED restVars

\* export function clearCachedLoggedInState()
ClearCachedLoggedInState ==
    /\ connectState' = "null"
    /\ origin' = Cleared
    /\ plainCall' = NoCall
    /\ UNCHANGED <<lastLoggedInCheckTime, now, jwt, check_status, tasks,
                   prefsPending, userFetchTimeout, serverUp>>
    /\ UNCHANGED flushVars
    /\ UNCHANGED restVars

\* initializePreferences -> getUser: the response of /users/me arrives
\* (lines 187-199)
UserResponse(registered) ==
    /\ prefsPending > 0
    /\ registered => serverUp
    /\ prefsPending' = prefsPending - 1
    /\ IF registered
       THEN /\ connectState' = "loggedIn"
            /\ origin' = [src |-> "user", time |-> now]
       ELSE UNCHANGED <<connectState, origin>>
    /\ UNCHANGED <<lastLoggedInCheckTime, now, jwt, check_status, tasks,
                   userFetchTimeout, plainCall, serverUp>>
    /\ UNCHANGED flushVars
    /\ UNCHANGED restVars

\* time passes
Tick ==
    /\ now < 1 + MaxTicks * TickSeconds
    /\ now' = now + TickSeconds
    /\ UNCHANGED <<connectState, lastLoggedInCheckTime, jwt, check_status,
                   tasks, prefsPending, userFetchTimeout, origin, plainCall,
                   serverUp>>
    /\ UNCHANGED flushVars
    /\ UNCHANGED restVars


\* ------------------------------------------------------------------------
\* DataController: callers of getUserStatus, the login-recheck campaign
\* ------------------------------------------------------------------------
\* export function getConnectState()
getConnectState == connectState

\* getCachedLoggedInState: if (!connectState) await serverIsAvailable()
GetCachedLoggedInState ==
    /\ CanStart
    /\ connectState = "null"
    /\ tasks' = Started([FreeTask EXCEPT !.kind = "cached", !.pc = "server"])
    /\ UNCHANGED <<connectState, lastLoggedInCheckTime, now, jwt,
                   check_status, prefsPending, userFetchTimeout, origin,
                   plainCall, serverUp>>
    /\ UNCHANGED flushVars
    /\ UNCHANGED restVars

\* handleKpmClickedEvent: let serverIsOnline = await serverIsAvailable()
HandleKpmClickedEvent ==
    /\ CanStart
    /\ tasks' = Started([FreeTask EXCEPT !.kind = "kpm", !.pc = "server"])
    /\ UNCHANGED <<connectState, lastLoggedInCheckTime, now, jwt,
                   check_status, prefsPending, userFetchTimeout, origin,
                   plainCall, serverUp>>
    /\ UNCHANGED flushVars
    /\ UNCHANGED restVars

\* serverIsAvailable() has answered: the caller goes on to getUserStatus
ServerChecked(task) ==
    /\ task.pc = "server"
    /\ BeginStatus(Ended(task), task, task.kind, serverIsAvailable,
                   task.kind # "kpm")
    /\ UNCHANGED <<now, jwt, serverUp>>
    /\ UNCHANGED flushVars
    /\ UNCHANGED restVars

\* an exported call refetchUserStatusLazily(n): a campaign of budget n
RefetchUserStatusLazily(n) ==
    /\ userFetchTimeout' = Refetched(n, n, 0)
    /\ UNCHANGED <<connectState, lastLoggedInCheckTime, now, jwt,
                   check_status, tasks, prefsPending, origin, plainCall,
                   serverUp>>
    /\ UNCHANGED flushVars
    /\ UNCHANGED restVars

\* handleKpmClickedEvent after its awaits, not logged in:
\* refetchUserStatusLazily()
KpmUrlsBuilt(task) ==
    /\ task.pc = "urls"
    /\ userFetchTimeout' = Refetched(DefaultTryCount, DefaultTryCount, 0)
    /\ tasks' = Ended(task)
    /\ UNCHANGED <<connectState, lastLoggedInCheckTime, now, jwt,
                   check_status, prefsPending, origin, plainCall, serverUp>>
    /\ UNCHANGED flushVars
    /\ UNCHANGED restVars

\* the timer of refetchUserStatusLazily fires: userFetchTimeout = null;
\* userStatusFetchHandler(n) runs up to await serverIsAvailable()
TimerFires ==
    /\ userFetchTimeout.timers > 0
    /\ CanStart
    /\ userFetchTimeout' =
          [NoTimer EXCEPT !.timers = userFetchTimeout.timers - 1]
    /\ tasks' = Started([FreeTask EXCEPT
                            !.kind = "handler", !.pc = "server",
                            !.try = userFetchTimeout.try,
                            !.budget = userFetchTimeout.budget,
                            !.attempt = userFetchTimeout.attempt + 1])
    /\ UNCHANGED <<connectState, lastLoggedInCheckTime, now, jwt,
                   check_status, prefsPending, origin, plainCall, serverUp>>
    /\ UNCHANGED flushVars
    /\ UNCHANGED restVars

NextAuth ==
    \/ \E online, ignoreCache \in BOOLEAN : GetUserStatus(online, ignoreCache)
    \/ \E task \in Running : \E answer \in Answers :
          StateResponse(task, answer)
    \/ ClearCachedLoggedInState
    \/ \E registered \in BOOLEAN : UserResponse(registered)
    \/ GetCachedLoggedInState
    \/ \E task \in Running : ServerChecked(task)
    \/ Tick
    \/ ServerChange

SpecAuth == Init /\ [][NextAuth]_vars

NextCampaign ==
    \/ \E n \in 1 .. MaxTryCount : RefetchUserStatusLazily(n)
    \/ HandleKpmClickedEvent
    \/ \E task \in Running : ServerChecked(task)
    \/ \E task \in Running : \E answer \in Answers :
          StateResponse(task, answer)
    \/ \E task \in Running : KpmUrlsBuilt(task)
    \/ TimerFires
    \/ \E registered \in BOOLEAN : UserResponse(registered)
    \/ ServerChange

SpecCampaign == Init /\ [][NextCampaign]_vars

\* ------------------------------------------------------------------------
\* Onboarding: onboardInit and its retries
\* ------------------------------------------------------------------------
\* a limit the counter never reaches
RetryLimitNever == MaxRetryCounter + 1

\* else if (retry_counter < 5)
RetryLimit == 5

\* a timer callback that forgets retry_counter++
IncrementedNot(counter) == counter

\* retry_counter++; the code compares the counter with 0 and RetryLimit
\* only, values from MaxRetryCounter on are identified
Incremented(counter) ==
    IF counter < MaxRetryCounter THEN counter + 1 ELSE counter

\* one more online call of secondaryWindowOnboarding; the counts above
\* MaxRetryCounter are identified
Counted(calls) ==
    IF calls <= MaxRetryCounter THEN calls + 1 ELSE calls

\* the onboarding when a step begins: the timer whose callback is running,
\* if the step is one, is no longer pending
Entered ==
    [onboard EXCEPT !.timers = IF onboard.pc \in {"primaryTimer", "retryTimer"}
                               THEN onboard.timers - 1
                               ELSE onboard.timers]

\* setTimeout(() => { ...; onboardInit(ctx, callback) }, ...)
Scheduled(pc) ==
    [Entered EXCEPT !.pc = pc, !.timers = Entered.timers + 1]

\* a callback call that is not followed by return: the retry is scheduled
\* as well
CallbackGoesOn(anonCreated, jwtStored) ==
    [Scheduled("retryTimer") EXCEPT !.callbacks = onboard.callbacks + 1,
                                    !.anonCreated = anonCreated,
                                    !.jwtAtCallback = jwtStored]

\* return callback(ctx, anonCreated)
Callback(anonCreated, jwtStored) ==
    [Entered EXCEPT !.pc = "done", !.callbacks = onboard.callbacks + 1,
                    !.anonCreated = anonCreated,
                    !.jwtAtCallback = jwtStored]

\* an onboardInit that goes on to the connectivity check whether or not a
\* jwt is stored
OnboardInitRechecks ==
    /\ UNCHANGED <<jwt, jwtApp>>
    /\ onboard' =
          IF focused THEN [Entered EXCEPT !.pc = "primaryServer"]
          ELSE [Entered EXCEPT !.pc = "secondaryServer"]

\* onboardInit, lines 152-179: an app jwt is nullified in the focused
\* window; with a jwt the callback is called, without one the primary or
\* the secondary onboarding runs up to await serverIsAvailable()
OnboardInitBody ==
    LET nullified == jwt /\ focused /\ jwtApp
        stored == jwt /\ ~nullified
    IN
    /\ jwt' = stored
    /\ jwtApp' = (jwtApp /\ stored)
    /\ onboard' =
          IF stored THEN Callback(FALSE, stored)
          ELSE IF focused THEN [Entered EXCEPT !.pc = "primaryServer"]
          ELSE [Entered EXCEPT !.pc = "secondaryServer"]

\* what the onboarding steps leave alone
OnboardFrame ==
    /\ UNCHANGED <<TELEMETRY_ON, serverUp, offlineTimer, token, auth,
                   focused>>
    /\ UNCHANGED <<fileExists, file, flushes, appendLog>>
    /\ UNCHANGED loginVars

\* the call of onboardInit made at activation
OnboardInit ==
    /\ onboard.pc = "idle"
    /\ OnboardInitBody
    /\ UNCHANGED <<retry_counter, prompts>>
    /\ OnboardFrame

\* primaryWindowOnboarding, lines 196-206: the offline prompt once, then
\* setTimeout(..., one_min_millis * 2)
PrimaryRetry ==
    /\ prompts' = IF retry_counter = 0 THEN prompts + 1 ELSE prompts
    /\ onboard' = Scheduled("primaryTimer")
    /\ UNCHANGED <<jwt, jwtApp, retry_counter>>

\* primaryWindowOnboarding after await serverIsAvailable()
PrimaryServerChecked ==
    /\ onboard.pc = "primaryServer"
    /\ IF serverIsAvailable
       THEN /\ onboard' = [onboard EXCEPT !.pc = "primaryCreate"]
            /\ UNCHANGED <<jwt, jwtApp, retry_counter, prompts>>
       ELSE PrimaryRetry
    /\ OnboardFrame

\* primaryWindowOnboarding after await createAnonymousUser(), which
\* stores and returns the jwt, or returns null
PrimaryCreated(created) ==
    /\ onboard.pc = "primaryCreate"
    /\ created => serverUp
    /\ IF created
       THEN /\ jwt' = TRUE
            /\ jwtApp' = FALSE
            /\ onboard' = Callback(TRUE, TRUE)
            /\ UNCHANGED <<retry_counter, prompts>>
       ELSE PrimaryRetry
    /\ OnboardFrame

\* the timer of primaryWindowOnboarding fires: retry_counter++; onboardInit
PrimaryTimerFires ==
    /\ onboard.pc = "primaryTimer"
    /\ retry_counter' = Incremented(retry_counter)
    /\ OnboardInitBody
    /\ UNCHANGED prompts
    /\ OnboardFrame

\* secondaryWindowOnboarding after await serverIsAvailable()
SecondaryServerChecked ==
    /\ onboard.pc = "secondaryServer"
    /\ IF ~serverIsAvailable
       THEN \* setTimeout(..., one_min_millis)
            /\ onboard' = Scheduled("retryTimer")
            /\ UNCHANGED retry_counter
       ELSE IF retry_counter < RetryLimit
       THEN \* retry_counter++; setTimeout(..., 1000 * 15)
            /\ retry_counter' = Incremented(retry_counter)
            /\ onboard' = [Scheduled("retryTimer") EXCEPT
                              !.onlineCalls = Counted(onboard.onlineCalls)]
       ELSE \* await createAnonymousUser()
            /\ onboard' = [onboard EXCEPT
                              !.pc = "secondaryCreate",
                              !.onlineCalls = Counted(onboard.onlineCalls)]
            /\ UNCHANGED retry_counter
    /\ UNCHANGED <<jwt, jwtApp, prompts>>
    /\ OnboardFrame

\* secondaryWindowOnboarding after await createAnonymousUser(): the result
\* is not looked at
SecondaryCreated(created) ==
    /\ onboard.pc = "secondaryCreate"
    /\ created => serverUp
    /\ jwt' = (jwt \/ created)
    /\ jwtApp' = (jwtApp /\ ~created)
    /\ onboard' = Callback(TRUE, jwt \/ created)
    /\ UNCHANGED <<retry_counter, prompts>>
    /\ OnboardFrame

\* a timer of secondaryWindowOnboarding fires: onboardInit
RetryTimerFires ==
    /\ onboard.pc = "retryTimer"
    /\ OnboardInitBody
    /\ UNCHANGED <<retry_counter, prompts>>
    /\ OnboardFrame

\* the window gains or loses the focus
FocusChange ==
    /\ focused' = ~focused
    /\ UNCHANGED <<TELEMETRY_ON, serverUp, offlineTimer, token, auth,
                   retry_counter, jwtApp, onboard, prompts>>
    /\ UNCHANGED <<fileExists, file, flushes, appendLog>>
    /\ UNCHANGED authVars

\* another window stores a jwt (a user jwt or an app jwt)
JwtStored(app) ==
    /\ ~jwt \/ jwtApp # app
    /\ jwt' = TRUE
    /\ jwtApp' = app
    /\ UNCHANGED <<TELEMETRY_ON, serverUp, offlineTimer, token, auth,
                   retry_counter, focused, onboard, prompts>>
    /\ UNCHANGED <<fileExists, file, flushes, appendLog>>
    /\ UNCHANGED loginVars

\* the steps of the onboarding chain
OnboardStep ==
    \/ OnboardInit
    \/ PrimaryServerChecked
    \/ \E created \in BOOLEAN : PrimaryCreated(created)
    \/ PrimaryTimerFires
    \/ SecondaryServerChecked
    \/ \E created \in BOOLEAN : SecondaryCreated(created)
    \/ RetryTimerFires

NextOnboard ==
    \/ OnboardStep
    \/ FocusChange
    \/ \E app \in BOOLEAN : JwtStored(app)
    \/ ServerChange

\* a pending timer fires, a request is answered
SpecOnboard ==
    /\ Init
    /\ [][NextOnboard]_vars
    /\ WF_vars(OnboardStep)

\* C21: whenever the callback of onboardInit has been invoked, a jwt was
\* stored at the moment of the invocation.
C21_CallbackHasJwt == onboard.callbacks > 0 => onboard.jwtAtCallback

\* C22: secondaryWindowOnboarding goes on to create the anonymous user on
\* its 6th call made with the server online and on no earlier call (calls
\* made with the server offline are not counted).
C22_CreatedOnSixthCall ==
    [][(onboard.pc = "secondaryServer" /\ onboard'.pc = "secondaryCreate")
       => onboard'.onlineCalls = RetryLimit + 1]_vars

\* C23: the offline prompt is shown at most once over the whole run,
\* however many retries are made and however the focus changes.
C23_PromptAtMostOnce == prompts <= 1

\* the prompt was shown and two later retries of the primary window found
\* the server offline again
C23_Witness ==
    /\ prompts = 1
    /\ retry_counter >= 2
    /\ onboard.pc = "primaryTimer"

\* the steps that call onboardInit: the activation and the two timers
OnboardInitCalled ==
    /\ onboard.pc \in {"idle", "retryTimer", "primaryTimer"}
    /\ onboard' # onboard

\* C25: onboardInit called while a jwt is stored that is not nullified as
\* an app jwt invokes callback(ctx, false) at once and exactly once: no
\* connectivity check, no creation, no timer, no prompt, and the jwt and
\* retry_counter are left as they are (the 2 min timer's own
\* retry_counter++ precedes its call of onboardInit).
C25_StoredJwtCallsBack ==
    [][(OnboardInitCalled /\ jwt /\ ~(focused /\ jwtApp))
       => /\ onboard' = [onboard EXCEPT
                            !.pc = "done",
                            !.timers = 0,
                            !.callbacks = onboard.callbacks + 1,
                            !.anonCreated = FALSE,
                            !.jwtAtCallback = TRUE]
          /\ jwt' /\ jwtApp' = jwtApp
          /\ prompts' = prompts
          /\ retry_counter' = IF onboard.pc = "primaryTimer"
                              THEN Incremented(retry_counter)
                              ELSE retry_counter]_vars

\* a retry of the secondary window found a jwt stored meanwhile
C25_Witness ==
    /\ onboard.pc = "done"
    /\ onboard.callbacks = 1
    /\ ~onboard.anonCreated
    /\ onboard.onlineCalls >= 1
    /\ jwt

\* C26: for the one call of onboardInit made at activation, whatever the
\* server availability, the focus changes and the appearance of a jwt, the
\* callback is invoked at most once, at most one onboarding timer is
\* pending at any time, and once the callback has been invoked no timer is
\* pending and the onboarding has ended.
C26_OneCallbackOneTimer ==
    /\ onboard.callbacks <= 1
    /\ onboard.timers <= 1
    /\ onboard.callbacks = 1 => onboard.timers = 0 /\ onboard.pc = "done"

\* the callback was invoked after retries of both the primary and the
\* secondary window
C26_Witness ==
    /\ onboard.callbacks = 1
    /\ prompts = 1
    /\ retry_counter >= 2
    /\ onboard.onlineCalls >= 1

\* createAnonymousUser returns without a jwt
CreationFails ==
    \/ PrimaryCreated(FALSE)
    \/ SecondaryCreated(FALSE)

\* C27: if from some point on the server stays reachable and the creation
\* of the anonymous user no longer fails, then, every pending timer firing
\* and every request being answered, the callback is eventually invoked,
\* in the primary and in the secondary path alike.
C27_CallbackEventually ==
    (<>[]serverUp /\ <>[][~CreationFails]_vars) => <>(onboard.pc = "done")

\* the callback was invoked with a created user after retries of both the
\* primary and the secondary window
C27_Witness ==
    /\ onboard.pc = "done"
    /\ onboard.anonCreated
    /\ onboard.jwtAtCallback
    /\ prompts = 1
    /\ onboard.onlineCalls >= 2
    /\ serverUp

\* C17: a retry campaign makes a bounded number of attempts while the
\* backend stays unreachable and then terminates: it never happens that
\* from some point on the backend is unreachable and the onboarding
\* campaign goes on without its callback being invoked.
C17_CampaignsTerminate == []<>(serverUp \/ onboard.pc = "done")

\* ------------------------------------------------------------------------
\* Properties of the login-recheck campaign
\* ------------------------------------------------------------------------
\* a campaign has a pending timer or a userStatusFetchHandler in progress
CampaignLive ==
    \/ userFetchTimeout # NoTimer
    \/ \E task \in Running : task.kind = "handler"

\* the step in which the handler task invokes the status check
HandlerChecks(task) ==
    /\ task.kind = "handler"
    /\ ServerChecked(task)

\* the step in which the handler task performs the exhaustion action
HandlerExhausts(task) ==
    /\ task.kind = "handler"
    /\ task.try = 0
    /\ \/ ServerChecked(task)
       \/ \E answer \in Answers \ {"OK"} : StateResponse(task, answer)
    /\ tasks' = Ended(task)

\* C6 (Retry exhaustion): a login-recheck campaign started with budget N >= 1
\* invokes the status check at most N times; the exhaustion action
\* (check_status = true) ends the handler and schedules no further attempt.
C6_RetryExhaustion ==
    [][\A task \in Running :
          /\ (HandlerChecks(task) /\ task.budget >= 1)
                => task.attempt <= task.budget
          /\ HandlerExhausts(task)
                => (check_status' /\ userFetchTimeout' = userFetchTimeout)]_vars

\* C7: while a campaign has a pending timer or a userStatusFetchHandler in
\* progress, a further refetchUserStatusLazily call from outside the
\* campaign is a no-op.
C7_SingleCampaign ==
    [][(/\ CampaignLive
        /\ \/ \E n \in 1 .. MaxTryCount : RefetchUserStatusLazily(n)
           \/ \E task \in Running : KpmUrlsBuilt(task))
       => userFetchTimeout' = userFetchTimeout]_vars

\* the step in which the handler task learns that the user is logged in
HandlerFindsLogin(task) ==
    /\ task.kind = "handler"
    /\ StateResponse(task, "OK")

\* C24: when userStatusFetchHandler finds the user logged in its campaign
\* stops: the handler ends without scheduling a timer, check_status is not
\* set to true, and the cached login state is cleared; and any backend
\* response with state "OK" resets a previously set check_status to null.
C24_LoginStopsCampaign ==
    [][\A task \in Running :
          /\ HandlerFindsLogin(task)
                => /\ userFetchTimeout' = userFetchTimeout
                   /\ tasks' = Ended(task)
                   /\ ~check_status'
                   /\ connectState' = "null"
          /\ StateResponse(task, "OK") => ~check_status']_vars

\* the handler has found the user logged in and cleared the cache, the
\* preferences are being fetched
C24_Witness ==
    /\ origin = Cleared
    /\ connectState = "null"
    /\ ~check_status
    /\ prefsPending > 0
    /\ ~Guarded

\* C29: once userStatusFetchHandler has cleared the cached login state
\* after detecting a login, the cache stays null until the next
\* getUserStatus / getCachedLoggedInState call: the background task that
\* call of getUserStatus started (initializePreferences -> getUser) does not
\* write connectState after the clear.
C29_ClearedStaysNull ==
    [][(/\ origin = Cleared
        /\ connectState = "null"
        /\ \E registered \in BOOLEAN : UserResponse(registered))
       => connectState' = "null"]_vars

\* C28: at most one login-recheck timer is pending at any time, and
\* userFetchTimeout is non-null exactly while such a timer is pending (the
\* timer's callback resets it to null before the handler runs).
C28_OneRecheckTimer ==
    /\ userFetchTimeout.timers <= 1
    /\ Guarded <=> userFetchTimeout.timers = 1
    /\ ~Guarded => userFetchTimeout = NoTimer

\* the handler of an earlier timer has scheduled the pending timer
C28_Witness ==
    /\ userFetchTimeout.timers = 1
    /\ userFetchTimeout.attempt >= 1
    /\ Guarded

\* ------------------------------------------------------------------------
\* Properties of the cached login state
\* ------------------------------------------------------------------------
\* no DataController call is suspended
Quiescent == tasks = EmptyBag

\* the step is a call getUserStatus(true, false) made with the backend
\* reachable and while no other call is in progress
PlainCallStep ==
    /\ Quiescent
    /\ serverUp
    /\ GetUserStatus(TRUE, FALSE)

\* the step is a getUserStatus(_, false) call that returns the cached state
CacheHitStep ==
    /\ CacheLookup(FALSE).hit
    /\ \E online \in BOOLEAN : GetUserStatus(online, FALSE)

\* two getUserStatus(true, false) calls less than 5 minutes apart, with no
\* clearCachedLoggedInState() between them, make at most one backend request
C8_AtMostOneRequest ==
    [][(/\ PlainCallStep
        /\ plainCall # NoCall
        /\ now - plainCall.time < threshold)
       => ~(plainCall.requested /\ plainCall'.requested)]_vars

\* such a call made more than 5 minutes after the backend check that
\* produced the cached state makes a backend request
C8_RequestAfterTTL ==
    [][(/\ PlainCallStep
        /\ jwt
        /\ plainCall # NoCall
        /\ connectState # "null"
        /\ origin.src = "remote"
        /\ now - origin.time > threshold)
       => plainCall'.requested]_vars

\* C8 (TTL expiry): two getUserStatus(online, false) calls less than 5
\* minutes apart with no clear between them cause at most one backend status
\* request in total, and a further such call after the TTL window has
\* elapsed causes another backend request.
C8_TTLExpiry == C8_AtMostOneRequest /\ C8_RequestAfterTTL

\* a cached state that a remote check produced is returned only if that
\* check was made less than 5 minutes earlier
C9_CacheHitIsFresh ==
    [][(CacheHitStep /\ origin.src = "remote")
       => now - origin.time < threshold]_vars

\* a remote check that updates the cache sets lastLoggedInCheckTime to the
\* time of the check
C9_CheckSetsTimestamp ==
    [][(\E task \in Running : \E answer \in {"OK", "ANONYMOUS", "REJECTED"} :
            StateResponse(task, answer) /\ connectState' # "null")
       => lastLoggedInCheckTime' = now]_vars

\* C9: getUserStatus with ignoreCache=false returns the cached state without
\* a backend request only if that state was produced by a remote check less
\* than 5 minutes earlier, and every remote check that updates the cache
\* sets lastLoggedInCheckTime to the time of that check.
C9_CacheTTL == C9_CacheHitIsFresh /\ C9_CheckSetsTimestamp

\* C10: a getUserStatus call with ignoreCache=false never returns a cached
\* not-logged-in state that was stored by a getUserStatus run with the
\* server unreachable; it performs the backend check again.
C10_NoNegativeCaching ==
    [][CacheHitStep =>
          ~(connectState = "notLoggedIn" /\ origin.src = "offline")]_vars

\* the call getUserStatus(true, _) suspended in its backend request
StatusRequest ==
    [FreeTask EXCEPT !.kind = "status", !.pc = "state", !.online = TRUE]

C12_CachedReadNoNetwork ==
    [][GetCachedLoggedInState => tasks' = tasks]_vars

\* C16: when the answer of /users/plugin/state arrives, getUserStatus leaves
\* the cached state logged in if the answer is OK with state "OK" and not
\* logged in for every other answer (userStatusFetchHandler, which clears
\* the cache itself after a logged-in result, apart).
C16_LoggedInIffOK ==
    [][\A task \in Running : \A answer \in Answers :
          (/\ StateResponse(task, answer)
           /\ ~(task.kind = "handler" /\ answer = "OK"))
          => connectState' =
                IF answer = "OK" THEN "loggedIn" ELSE "notLoggedIn"]_vars

\* a backend answer OK has left the cache logged in
C16_Witness ==
    /\ connectState = "loggedIn"
    /\ origin.src = "remote"

\* C18: when the backend rejects the stored token in a status check, the
\* cached state is cleared (connectState is null afterwards).
C18_AuthExpiredClears ==
    [][\A task \in Running :
          StateResponse(task, "REJECTED") => connectState' = "null"]_vars

Next ==
    \/ NextFlush
    \/ NextActivate
    \/ NextParse
    \/ NextPing
    \/ NextAuth
    \/ NextCampaign
    \/ NextOnboard

Spec == Init /\ [][Next]_vars

=============================================================================
